---- MODULE Spec2Model ----
(***************************************************************************)
(* G-Maa speech engine (src/llm_engine.py): the phrase segmenter           *)
(* (SmartPhraseBuffer), the ordered playback queue, the playback loop with *)
(* its mute hooks, and interrupt().                                        *)
(*                                                                         *)
(* Everything runs on one asyncio event loop, so a step of the model is    *)
(* the code that runs between two suspension points (await) of a task.     *)
(* Strings are sequences of one-character strings.                         *)
(***************************************************************************)
EXTENDS Integers, Sequences, FiniteSets, TLC

VARIABLES
    buffer,        \* SmartPhraseBuffer.buffer
    silence_task,  \* SmartPhraseBuffer.silence_task: "none" | "pending" | "cancelled" | "done"
    watchdogs,     \* how many _silence_watchdog tasks are pending and not cancelled
    jobs,          \* the generation tasks still referenced, by id (submission number)
    nextId,        \* the id of the next task _queue_tts_generation creates
    audio_queue,   \* G_Maa_Engine.audio_queue: job ids, head first
    files,         \* job ids whose artifact file is on disk
    workerPc,      \* where the playback task is suspended
    task,          \* _playback_worker's local `task` (0: none)
    is_speaking,   \* G_Maa_Engine.is_speaking
    active,        \* VoskSTT.active, set by the mute / unmute hooks
    lastHook,      \* the hook invoked last: "none" | "mute" | "unmute"
    hookRepeated,  \* some hook was invoked twice with the other not in between
    played,        \* job ids in the order their player process started
    turnPc,        \* generate_and_speak: "idle" | "stream" | "raised"
    history,       \* G_Maa_Engine.history
    nTurns,        \* calls of generate_and_speak so far
    nTokens,       \* tokens streamed so far
    nInterrupts,   \* calls of interrupt() so far
    jobsAtInterrupt \* how many jobs existed when interrupt() was last called

vars == <<buffer, silence_task, watchdogs, jobs, nextId, audio_queue, files, workerPc,
          task, is_speaking, active, lastHook, hookRepeated, played, turnPc,
          history, nTurns, nTokens, nInterrupts, jobsAtInterrupt>>

callerVars == <<turnPc, history, nTurns, nTokens, nInterrupts, jobsAtInterrupt>>

\* ---------------------------------------------------------------- bounds
\* how many inputs the environment gives: calls of interrupt() and of
\* generate_and_speak, and streamed tokens
MaxInputs == 3

\* how many turns a conversation without interrupts and tokens has
MaxTurns == 6

\* ------------------------------------------------------ program constants
MIN_DISPATCH_WORDS == 2
LENGTH_THRESHOLD == 8
HISTORY_CAP == 8
MIN_TEXT_LEN == 2

\* how many words of the vocabulary a streamed chunk of text holds
MaxWords == 3

\* ---------------------------------------------------------------- strings
WS == {" ", "\n", "\t"}

UpperAlpha == <<"A","B","C","D","E","F","G","H","I","J","K","L","M",
                "N","O","P","Q","R","S","T","U","V","W","X","Y","Z">>
LowerAlpha == <<"a","b","c","d","e","f","g","h","i","j","k","l","m",
                "n","o","p","q","r","s","t","u","v","w","x","y","z">>

\* str.isupper() of one character
IsUpper(c) == \E i \in 1..Len(UpperAlpha) : UpperAlpha[i] = c

\* str.lower()
LowerChar(c) ==
    IF IsUpper(c)
    THEN LowerAlpha[CHOOSE i \in 1..Len(UpperAlpha) : UpperAlpha[i] = c]
    ELSE c

Lower(w) == [i \in 1..Len(w) |-> LowerChar(w[i])]

RECURSIVE LStrip(_)
LStrip(s) == IF s # <<>> /\ Head(s) \in WS THEN LStrip(Tail(s)) ELSE s

RECURSIVE RStrip(_)
RStrip(s) ==
    IF s # <<>> /\ s[Len(s)] \in WS THEN RStrip(SubSeq(s, 1, Len(s) - 1)) ELSE s

\* str.strip()
Strip(s) == RStrip(LStrip(s))

\* str.split(): the maximal runs of non-whitespace characters
RECURSIVE SplitFrom(_, _, _)
SplitFrom(s, cur, acc) ==
    IF s = <<>> THEN (IF cur = <<>> THEN acc ELSE Append(acc, cur))
    ELSE IF Head(s) \in WS
         THEN SplitFrom(Tail(s), <<>>, IF cur = <<>> THEN acc ELSE Append(acc, cur))
         ELSE SplitFrom(Tail(s), Append(cur, Head(s)), acc)

Split(s) == SplitFrom(s, <<>>, <<>>)

\* " ".join(words)
RECURSIVE Join(_)
Join(words) ==
    IF words = <<>> THEN <<>>
    ELSE IF Len(words) = 1 THEN words[1]
    ELSE words[1] \o <<" ">> \o Join(Tail(words))

\* str.replace('\n', ' ')
ReplaceNewlines(s) == [i \in 1..Len(s) |-> IF s[i] = "\n" THEN " " ELSE s[i]]

\* ------------------------------------------------------ SmartPhraseBuffer
\* (the punctuation list before the comma was added to it)
PunctWithoutComma == {".", "!", "?"}

TerminalPunct == {".", "!", "?", ","}

HoldConjunctions ==
    { <<"a","n","d">>, <<"b","u","t">>, <<"o","r">>, <<"s","o">>,
      <<"b","e","c","a","u","s","e">> }

SplitConjunctions == { <<"a","n","d">>, <<"b","u","t">>, <<"o","r">> }

Prepositions ==
    { <<"i","n">>, <<"a","t">>, <<"t","o">>, <<"f","r","o","m">>,
      <<"o","f">>, <<"o","n">> }

\* the loop of _find_safe_split_point from 0-based index i downwards
RECURSIVE SplitScan(_, _)
SplitScan(words, i) ==
    IF i < 1 THEN 0
    ELSE LET word == words[i + 1] IN
         IF word[Len(word)] = "," THEN i + 1
         ELSE IF Lower(word) \in SplitConjunctions THEN i
         ELSE IF /\ i + 1 < Len(words)
                 /\ IsUpper(words[i + 2][1])
                 /\ Lower(word) \in Prepositions THEN i
         ELSE SplitScan(words, i - 1)

\* (the scan from the second word forwards)
RECURSIVE SplitScanForward(_, _)
SplitScanForward(words, i) ==
    IF i > Len(words) - 1 THEN 0
    ELSE LET word == words[i + 1] IN
         IF word[Len(word)] = "," THEN i + 1
         ELSE IF Lower(word) \in SplitConjunctions THEN i
         ELSE IF /\ i + 1 < Len(words)
                 /\ IsUpper(words[i + 2][1])
                 /\ Lower(word) \in Prepositions THEN i
         ELSE SplitScanForward(words, i + 1)

_find_first_split_point(words) == SplitScanForward(words, 1)

_find_safe_split_point(words) == SplitScan(words, Len(words) - 1)

\* ------------------------------------------------------------ the engine
\* The objects' fields as one record, so that a method is an operator from
\* the fields before the call to the fields after it.
Eng ==
    [buffer |-> buffer, silence_task |-> silence_task, watchdogs |-> watchdogs,
     jobs |-> jobs,
     nextId |-> nextId, audio_queue |-> audio_queue, files |-> files,
     workerPc |-> workerPc, task |-> task, is_speaking |-> is_speaking,
     active |-> active, lastHook |-> lastHook, hookRepeated |-> hookRepeated,
     played |-> played]

Commit(e) ==
    /\ buffer' = e.buffer
    /\ silence_task' = e.silence_task
    /\ watchdogs' = e.watchdogs
    /\ jobs' = e.jobs
    /\ nextId' = e.nextId
    /\ audio_queue' = e.audio_queue
    /\ files' = e.files
    /\ workerPc' = e.workerPc
    /\ task' = e.task
    /\ is_speaking' = e.is_speaking
    /\ active' = e.active
    /\ lastHook' = e.lastHook
    /\ hookRepeated' = e.hookRepeated
    /\ played' = e.played

\* A task: the text its coroutine holds while it runs, its state ("pending",
\* or how it ended: "file", "small", "none", "cancelled"), and the tasks
\* submitted before it that were still pending when it returned.
NewJob(js, id, text) ==
    [j \in DOMAIN js \cup {id} |->
        IF j = id THEN [text |-> text, status |-> "pending", overtook |-> {}]
        ELSE js[j]]

\* a task nothing refers to any more
Forget(js, ids) == [j \in DOMAIN js \ ids |-> js[j]]

\* (a queue that hands out the newest task first)
put_front(q, j) == <<j>> \o q

\* asyncio.Queue.put_nowait
put_nowait(q, j) == Append(q, j)

\* asyncio.Task.cancel(): no effect on a task that is done
Cancel(status) == IF status = "pending" THEN "cancelled" ELSE status

\* the task is created (generation starts in the background) and queued
_queue_tts_generation(e, text_chunk) ==
    [e EXCEPT !.jobs = NewJob(@, e.nextId, text_chunk),
              !.nextId = @ + 1,
              !.audio_queue = put_nowait(@, e.nextId)]

_do_dispatch(e, text) ==
    [_queue_tts_generation(e, text) EXCEPT
        !.buffer = <<>>,
        !.silence_task = Cancel(@),
        !.watchdogs = IF e.silence_task = "pending" THEN @ - 1 ELSE @]

\* (the flush without its return on an empty text)
_try_dispatch_any_text(e, force) ==
    LET text == Strip(e.buffer)
        words == Split(text)
        word_count == Len(words)
    IN  IF ~force /\ word_count < MIN_DISPATCH_WORDS THEN e
        ELSE IF text # <<>> /\ text[Len(text)] \in TerminalPunct
             THEN _do_dispatch(e, text)
        ELSE IF ~force /\ Lower(words[word_count]) \in HoldConjunctions THEN e
        ELSE IF word_count >= LENGTH_THRESHOLD \/ force
             THEN LET split_point == _find_safe_split_point(words) IN
                  IF split_point > 0
                  THEN LET chunk == Join(SubSeq(words, 1, split_point))
                           remainder ==
                               Join(SubSeq(words, split_point + 1, word_count))
                       IN [_do_dispatch(e, chunk) EXCEPT
                              !.buffer = remainder \o <<" ">>]
                  ELSE _do_dispatch(e, text)
        ELSE e

_try_dispatch(e, force) ==
    LET text == Strip(e.buffer)
        words == Split(text)
        word_count == Len(words)
    IN  IF text = <<>> THEN e
        ELSE IF ~force /\ word_count < MIN_DISPATCH_WORDS THEN e
        ELSE IF text[Len(text)] \in TerminalPunct THEN _do_dispatch(e, text)
        ELSE IF ~force /\ Lower(words[word_count]) \in HoldConjunctions THEN e
        ELSE IF word_count >= LENGTH_THRESHOLD \/ force
             THEN LET split_point == _find_safe_split_point(words) IN
                  IF split_point > 0
                  THEN LET chunk == Join(SubSeq(words, 1, split_point))
                           remainder ==
                               Join(SubSeq(words, split_point + 1, word_count))
                       IN [_do_dispatch(e, chunk) EXCEPT
                              !.buffer = remainder \o <<" ">>]
                  ELSE _do_dispatch(e, text)
        ELSE e

\* (add_token without the cancel of the previous watchdog)
add_token_without_cancel(e, token) ==
    [e EXCEPT !.buffer = @ \o token, !.silence_task = "pending",
              !.watchdogs = @ + 1]

\* the previous watchdog is cancelled and a new one is created
add_token(e, token) ==
    [e EXCEPT !.buffer = @ \o token, !.silence_task = "pending",
              !.watchdogs = IF e.silence_task = "pending" THEN @ ELSE @ + 1]

\* the body of _silence_watchdog after its sleep; the task then ends
\* (cancelled if _do_dispatch cancelled it while it ran), so that one
\* watchdog fewer is pending
_silence_watchdog(e) ==
    LET e1 == IF Strip(e.buffer) # <<>> THEN _try_dispatch(e, TRUE) ELSE e
    IN  [e1 EXCEPT !.silence_task = IF @ = "pending" THEN "done" ELSE @,
                   !.watchdogs = IF e.silence_task = "pending" /\ e1.silence_task # "pending"
                                 THEN @ ELSE @ - 1]

\* ------------------------------------------------------------- the hooks
mute_callback(e) ==
    [e EXCEPT !.active = FALSE, !.lastHook = "mute",
              !.hookRepeated = @ \/ e.lastHook = "mute"]

unmute_callback(e) ==
    [e EXCEPT !.active = TRUE, !.lastHook = "unmute",
              !.hookRepeated = @ \/ e.lastHook = "unmute"]

\* ------------------------------------------------------------- interrupt
InQueue(q, j) == \E i \in 1..Len(q) : q[i] = j

\* the drain loop: every queued task is removed, and cancelled if not done;
\* nothing refers to the removed tasks any more
DrainQueue(e) ==
    [e EXCEPT !.jobs = Forget(@, {j \in DOMAIN e.jobs : InQueue(e.audio_queue, j)}),
              !.audio_queue = <<>>]

\* (interrupt without its last assignment)
interrupt_keeps_speaking(e) ==
    LET drained == DrainQueue(e)
        reset == _do_dispatch([drained EXCEPT !.buffer = <<>>], <<>>)
    IN  unmute_callback(reset)

interrupt(e) ==
    LET drained == DrainQueue(e)
        reset == _do_dispatch([drained EXCEPT !.buffer = <<>>], <<>>)
    IN  [unmute_callback(reset) EXCEPT !.is_speaking = FALSE]

\* ----------------------------------------------------- _generate_speech_file
BareTokens ==
    { <<".">>, <<",">>, <<"!">>, <<"?">>, <<":">>, <<";">>, <<"-">>,
      <<".", ".", ".">>, <<"\"">>, <<"'">> }

NoAudioText(text) ==
    LET t == ReplaceNewlines(Strip(text)) IN
    Len(t) < MIN_TEXT_LEN \/ t \in BareTokens

\* What a generation task can return: "none" (no engine, degenerate text,
\* empty audio, an exception), "file" (an artifact of at least 100 bytes) or
\* "small" (an artifact under 100 bytes).
GenOutcomes(text) ==
    IF NoAudioText(text) THEN {"none"} ELSE {"none", "file", "small"}

\* --------------------------------------------------------- _playback_worker
StopSpeaking(e) ==
    IF e.is_speaking
    THEN [unmute_callback(e) EXCEPT !.is_speaking = FALSE]
    ELSE e

StartSpeaking(e) ==
    IF ~e.is_speaking
    THEN [mute_callback(e) EXCEPT !.is_speaking = TRUE]
    ELSE e

\* asyncio.Queue.get_nowait
get_nowait(q) == Head(q)

RECURSIVE LoopIteration(_)
RECURSIVE AfterAwait(_)

\* One pass of the while loop from its top, up to the next suspension: the
\* poll sleep, the await of a task that is not done, or the player's spawn.
LoopIteration(e) ==
    IF e.audio_queue = <<>>
    THEN [StopSpeaking(e) EXCEPT !.workerPc = "sleep", !.task = 0,
                                 !.jobs = Forget(@, {e.task})]
    ELSE LET t == get_nowait(e.audio_queue)
             e1 == [StopSpeaking(e) EXCEPT !.audio_queue = Tail(@), !.task = t,
                                           !.jobs = Forget(@, {e.task})]
         IN  IF e1.jobs[t].status = "pending"
             THEN [e1 EXCEPT !.workerPc = "await"]
             ELSE AfterAwait(e1)

\* (the loop muting as soon as the task awaited is done)
AfterAwaitMuteFirst(e) ==
    LET status == e.jobs[e.task].status
        muted == StartSpeaking(e)
    IN  IF status \in {"cancelled", "none"} THEN LoopIteration(muted)
        ELSE IF e.task \notin e.files THEN LoopIteration(muted)
        ELSE IF status = "small" THEN LoopIteration(muted)
        ELSE [muted EXCEPT !.workerPc = "spawn"]

\* (the loop without its size check)
AfterAwaitAnySize(e) ==
    LET status == e.jobs[e.task].status IN
    IF status \in {"cancelled", "none"} THEN LoopIteration(e)
    ELSE IF e.task \notin e.files THEN LoopIteration(e)
    ELSE [StartSpeaking(e) EXCEPT !.workerPc = "spawn"]

\* From the return of `await task` to the next suspension.
AfterAwait(e) ==
    LET status == e.jobs[e.task].status IN
    IF status \in {"cancelled", "none"} THEN LoopIteration(e)
    ELSE IF e.task \notin e.files THEN LoopIteration(e)
    ELSE IF status = "small" THEN LoopIteration(e)
    ELSE [StartSpeaking(e) EXCEPT !.workerPc = "spawn"]

\* the cleanup after proc.communicate() returned
AfterPlayback(e) == LoopIteration([e EXCEPT !.files = @ \ {e.task}])

\* the handler of `except Exception` around the player
PlaybackFailed(e) ==
    LoopIteration([e EXCEPT !.files = @ \ {e.task}, !.is_speaking = FALSE])

\* _playback_worker from its first line
WorkerEntry(e) == LoopIteration([e EXCEPT !.is_speaking = FALSE])

\* The loop from its top when unmute_callback() raises: the exception leaves
\* _playback_worker before is_speaking is reset, after get_nowait() when
\* the queue is not empty.  The task taken is dropped with the frame; it
\* goes on running.
UnmuteRaises(e) ==
    IF e.audio_queue = <<>>
    THEN [e EXCEPT !.workerPc = "crashed", !.task = 0,
                   !.jobs = Forget(@, {e.task})]
    ELSE [e EXCEPT !.audio_queue = Tail(@), !.workerPc = "crashed", !.task = 0,
                   !.jobs = Forget(@, {e.task})]

\* mute_callback() raises before the player is spawned: is_speaking is not
\* set, the task awaited is dropped with the frame, its artifact stays
MuteRaises(e) == [e EXCEPT !.workerPc = "crashed", !.task = 0]

\* -------------------------------------------------------------- the tokens
TokenSet ==
    { <<" ","h","i">>, <<" ","a","n","d">>, <<",">>, <<" ","h","i",",">>, <<" ">> }

\* Chunks of several words, as a stream can deliver them: words of each
\* kind the split rules tell apart, alone or after five plain words (so that
\* an unforced flush reaches the length threshold).
Vocabulary ==
    { <<"h","i">>, <<"h","i",",">>, <<"a","n","d">>, <<"i","n">>,
      <<"R","o","m","e">> }

PlainWords == << <<"h","i">>, <<"h","i">>, <<"h","i">>, <<"h","i">>, <<"h","i">> >>

WordLists == UNION { [1..n -> Vocabulary] : n \in 1..MaxWords }

Chunks == { Join(pad \o ws) : pad \in {<<>>, PlainWords}, ws \in WordLists }

FALLBACK == <<"I","'","m"," ","h","a","v","i","n","g"," ","t","r","o","u","b","l","e",
              " ","t","h","i","n","k","i","n","g"," ","r","i","g","h","t"," ",
              "n","o","w",".">>

nInputs == nTurns + nTokens + nInterrupts

\* ------------------------------------------------------------------- Init
Init ==
    /\ buffer = <<>>
    /\ silence_task = "none"
    /\ watchdogs = 0
    /\ jobs = <<>>
    /\ nextId = 1
    /\ audio_queue = <<>>
    /\ files = {}
    /\ workerPc = "off"
    /\ task = 0
    /\ is_speaking = FALSE
    /\ active = TRUE
    /\ lastHook = "none"
    /\ hookRepeated = FALSE
    /\ played = <<>>
    /\ turnPc = "idle"
    /\ history = <<>>
    /\ nTurns = 0
    /\ nTokens = 0
    /\ nInterrupts = 0
    /\ jobsAtInterrupt = 0

\* ---------------------------------------------------------------- actions
\* start(): the supervisor task is created
Start ==
    /\ workerPc = "off"
    /\ workerPc' = "sup"
    /\ UNCHANGED <<buffer, silence_task, watchdogs, jobs, nextId, audio_queue, files,
                   task, is_speaking, active, lastHook, hookRepeated, played>>
    /\ UNCHANGED callerVars

\* the supervisor's first step: it enters _playback_worker
SupervisorRun ==
    /\ workerPc = "sup"
    /\ Commit(WorkerEntry(Eng))
    /\ UNCHANGED callerVars

\* asyncio.sleep(0.1) returns
WorkerWake ==
    /\ workerPc = "sleep"
    /\ Commit(LoopIteration(Eng))
    /\ UNCHANGED callerVars

\* `await task` returns: the awaited generation is done
WorkerResume ==
    /\ workerPc = "await"
    /\ jobs[task].status # "pending"
    /\ Commit(AfterAwait(Eng))
    /\ UNCHANGED callerVars

\* create_subprocess_exec returns: the player is running
PlayerStarts ==
    /\ workerPc = "spawn"
    /\ workerPc' = "playing"
    /\ played' = Append(played, task)
    /\ UNCHANGED <<buffer, silence_task, watchdogs, jobs, nextId, audio_queue, files,
                   task, is_speaking, active, lastHook, hookRepeated>>
    /\ UNCHANGED callerVars

\* proc.communicate() returns: the player has exited
PlayerExits ==
    /\ workerPc = "playing"
    /\ Commit(AfterPlayback(Eng))
    /\ UNCHANGED callerVars

\* create_subprocess_exec or proc.communicate() raises
PlaybackError ==
    /\ workerPc \in {"spawn", "playing"}
    /\ Commit(PlaybackFailed(Eng))
    /\ UNCHANGED callerVars

\* a generation task returns
GenComplete ==
    \E j \in DOMAIN jobs :
        /\ jobs[j].status = "pending"
        /\ \E outcome \in GenOutcomes(jobs[j].text) :
            /\ jobs' = [jobs EXCEPT ![j] =
                          [text |-> <<>>, status |-> outcome,
                           overtook |-> {i \in DOMAIN jobs :
                                           i < j /\ jobs[i].status = "pending"}]]
            /\ files' = IF outcome \in {"file", "small"} THEN files \cup {j} ELSE files
        /\ UNCHANGED <<buffer, silence_task, watchdogs, nextId, audio_queue, workerPc,
                       task,
                       is_speaking, active, lastHook, hookRepeated, played>>
        /\ UNCHANGED callerVars

Interrupt ==
    /\ nInputs < MaxInputs
    /\ Commit(interrupt(Eng))
    /\ nInterrupts' = nInterrupts + 1
    /\ jobsAtInterrupt' = nextId - 1
    /\ UNCHANGED <<turnPc, history, nTurns, nTokens>>

\* generate_and_speak is called and awaits the chat stream
GenerateAndSpeak ==
    /\ turnPc = "idle"
    /\ nInputs < MaxInputs
    /\ turnPc' = "stream"
    /\ nTurns' = nTurns + 1
    /\ UNCHANGED <<buffer, silence_task, watchdogs, jobs, nextId, audio_queue, files,
                   workerPc, task, is_speaking, active, lastHook, hookRepeated,
                   played, history, nTokens, nInterrupts, jobsAtInterrupt>>

\* one chunk of the stream: add_token, then the unforced flush
StreamToken ==
    \E token \in TokenSet :
        /\ turnPc = "stream"
        /\ nInputs < MaxInputs
        /\ Commit(_try_dispatch(add_token(Eng, token), FALSE))
        /\ nTokens' = nTokens + 1
        /\ UNCHANGED <<turnPc, history, nTurns, nInterrupts, jobsAtInterrupt>>

\* (the history with nothing evicted)
KeepAll(h) == h

TrimHistory(h) ==
    IF Len(h) > HISTORY_CAP THEN SubSeq(h, Len(h) - HISTORY_CAP + 1, Len(h)) ELSE h

\* the stream ends: the forced flush, then the history update
StreamEnd ==
    /\ turnPc = "stream"
    /\ Commit(_try_dispatch(Eng, TRUE))
    /\ history' = TrimHistory(history \o <<[role |-> "user", turn |-> nTurns],
                                            [role |-> "assistant", turn |-> nTurns]>>)
    /\ turnPc' = "idle"
    /\ UNCHANGED <<nTurns, nTokens, nInterrupts, jobsAtInterrupt>>

\* the chat call or the stream raises: the fallback phrase is queued, and
\* `await` of _queue_tts_generation's None raises TypeError to the caller
StreamError ==
    /\ turnPc = "stream"
    /\ Commit(_queue_tts_generation(Eng, FALLBACK))
    /\ turnPc' = "raised"
    /\ UNCHANGED <<history, nTurns, nTokens, nInterrupts, jobsAtInterrupt>>

\* the silence watchdog's sleep ends
SilenceWatchdog ==
    /\ watchdogs > 0
    /\ Commit(_silence_watchdog(Eng))
    /\ UNCHANGED callerVars

\* the player has exited and the artifact is removed; the loop starts over
\* with is_speaking set, and the unmute hook raises
UnmuteHookRaises ==
    /\ workerPc = "playing"
    /\ is_speaking
    /\ Commit(UnmuteRaises([Eng EXCEPT !.files = @ \ {task}]))
    /\ UNCHANGED callerVars

\* `await task` returns a playable artifact and the mute hook raises
MuteHookRaises ==
    /\ workerPc = "await"
    /\ jobs[task].status = "file"
    /\ task \in files
    /\ ~is_speaking
    /\ Commit(MuteRaises(Eng))
    /\ UNCHANGED callerVars

\* the supervisor's handler has slept one second and calls the worker again
SupervisorRestart ==
    /\ workerPc = "crashed"
    /\ Commit(WorkerEntry(Eng))
    /\ UNCHANGED callerVars

Next ==
    \/ Start
    \/ SupervisorRun
    \/ WorkerWake
    \/ WorkerResume
    \/ PlayerStarts
    \/ PlayerExits
    \/ PlaybackError
    \/ GenComplete
    \/ Interrupt
    \/ GenerateAndSpeak
    \/ StreamToken
    \/ StreamEnd
    \/ StreamError
    \/ SilenceWatchdog

Spec == Init /\ [][Next]_vars

\* The engine with hooks that can raise: the playback loop calls them
\* outside its try blocks, so that the exception reaches the supervisor.
CrashNext ==
    \/ Next
    \/ UnmuteHookRaises
    \/ MuteHookRaises
    \/ SupervisorRestart

CrashSpec == Init /\ [][CrashNext]_vars

\* run_conversation_loop calls generate_and_speak for the next utterance
ConversationTurn ==
    /\ turnPc = "idle"
    /\ nTurns < MaxTurns
    /\ turnPc' = "stream"
    /\ nTurns' = nTurns + 1
    /\ UNCHANGED <<buffer, silence_task, watchdogs, jobs, nextId, audio_queue, files,
                   workerPc, task, is_speaking, active, lastHook, hookRepeated,
                   played, history, nTokens, nInterrupts, jobsAtInterrupt>>

\* A conversation of up to MaxTurns turns whose streams carry no text: each
\* turn ends or fails, and the playback loop plays the fallback phrase.
HistoryNext ==
    \/ Start
    \/ SupervisorRun
    \/ WorkerWake
    \/ WorkerResume
    \/ PlayerStarts
    \/ PlayerExits
    \/ PlaybackError
    \/ GenComplete
    \/ ConversationTurn
    \/ StreamEnd
    \/ StreamError

HistorySpec == Init /\ [][HistoryNext]_vars

\* the stream delivers its text as one chunk: add_token, then the unforced
\* flush
StreamChunk ==
    \E chunk \in Chunks :
        /\ turnPc = "stream"
        /\ nTokens = 0
        /\ Commit(_try_dispatch(add_token(Eng, chunk), FALSE))
        /\ nTokens' = nTokens + 1
        /\ UNCHANGED <<turnPc, history, nTurns, nInterrupts, jobsAtInterrupt>>

\* The segmenter alone: one turn whose stream is one chunk of words,
\* flushed unforced on arrival and forced when the stream ends.
SplitNext ==
    \/ GenerateAndSpeak
    \/ StreamChunk
    \/ StreamEnd

SplitSpec == Init /\ [][SplitNext]_vars

\* ------------------------------------------------------------------ claims
NonWhitespace(s) == SelectSeq(s, LAMBDA c : c \notin {" ", "\n", "\t"})

HasContent == NonWhitespace(buffer) # <<>>

Increasing(seq) == \A i, j \in 1..Len(seq) : i < j => seq[i] < seq[j]

\* C1: artifacts start playing in the order their phrases were submitted,
\* whatever the order in which the generation tasks complete.
C1_PlaybackInSubmissionOrder == Increasing(played)

\* C1 witness: the artifact now playing finished generating before that of
\* an earlier submission, which has nevertheless played before it.
C1_Witness ==
    /\ workerPc = "playing"
    /\ \E a \in jobs[task].overtook : \E i \in 1..Len(played) : played[i] = a

\* C2: while the player subprocess runs, the microphone is muted and the
\* hook invoked last is the mute hook.
C2_PlayingImpliesMuted ==
    workerPc = "playing" => (lastHook = "mute" /\ ~active)

\* C3: when interrupt() returns, the audio queue is empty and is_speaking
\* is false.
C3_InterruptEmptiesQueue ==
    [][nInterrupts' # nInterrupts => (audio_queue' = <<>> /\ ~is_speaking')]_vars

\* C4: interrupt() cancels every task that exists when it is called, the one
\* the playback loop awaits included: an artifact that starts playing is
\* never that of a phrase submitted before the last interrupt() call.
C4_NoPlayAfterInterrupt ==
    [][Len(played') > Len(played) => played'[Len(played')] > jobsAtInterrupt']_vars

\* C5: the hook invocations alternate: neither hook is invoked twice
\* without the other in between.
C5_HooksAlternate == ~hookRepeated

\* C6: when is_speaking is false, the queue is empty and the playback loop
\* is in its poll sleep, the microphone is unmuted.
C6_IdleImpliesUnmuted ==
    (~is_speaking /\ audio_queue = <<>> /\ workerPc = "sleep")
        => (lastHook # "mute" /\ active)

\* C7: whenever is_speaking is true, the mute hook was invoked more recently
\* than the unmute hook.
C7_SpeakingImpliesMuted == is_speaking => (lastHook = "mute" /\ ~active)

\* C7 witness: an artifact is playing after an interrupt() call, with
\* is_speaking set.
C7_Witness == is_speaking /\ workerPc = "playing" /\ nInterrupts > 0

\* C8: right after an interrupt() call, a second call changes nothing: no
\* field, no further hook invocation, no new task.
C8_InterruptIdempotent ==
    [][nInterrupts' # nInterrupts => interrupt(Eng)' = Eng']_vars

\* the phrase a flush dispatched, given the fields before and after it
Dispatched(before, after) ==
    IF after.nextId = before.nextId + 1 /\ before.nextId \in DOMAIN after.jobs
    THEN <<after.jobs[before.nextId].text>>
    ELSE <<>>

PunctuationFlush(token, minWords) ==
    LET added == add_token(Eng, token)
        after == _try_dispatch(added, FALSE)
        buf == added.buffer
    IN  (/\ buf # <<>>
         /\ buf[Len(buf)] \in {".", "!", "?", ","}
         /\ Len(Split(buf)) >= minWords)
        => /\ after.buffer = <<>>
           /\ Dispatched(added, after) # <<>>
           /\ LET phrase == Dispatched(added, after)[1] IN
                  /\ phrase # <<>>
                  /\ phrase[Len(phrase)] = buf[Len(buf)]
                  /\ NonWhitespace(phrase) = NonWhitespace(buf)
                  /\ Len(Split(phrase)) = Len(Split(buf))

\* C9 as stated: whenever a token makes the buffer end in . ! ? or , the
\* unforced flush that follows dispatches one phrase that ends at that
\* character and holds everything buffered, and empties the buffer, for a
\* buffer of any length, one word included.
C9_PunctuationFlushAnyLength ==
    turnPc = "stream" => \A token \in TokenSet : PunctuationFlush(token, 1)

\* C9 amended: the same, for a buffer of at least two words.
C9_PunctuationFlushTwoWords ==
    turnPc = "stream" => \A token \in TokenSet : PunctuationFlush(token, 2)

\* C9 witness: a phrase of two words ending in punctuation has just been
\* dispatched by a token's flush, and the buffer is empty.
C9_Witness ==
    /\ turnPc = "stream"
    /\ buffer = <<>>
    /\ nextId - 1 \in DOMAIN jobs
    /\ LET phrase == jobs[nextId - 1].text IN
          /\ Len(Split(phrase)) >= 2
          /\ phrase[Len(phrase)] \in {".", "!", "?", ","}

\* C10: buffered content is always on its way out.  Only a token's flush,
\* the forced flush at the end of the stream and the silence watchdog flush
\* the buffer, so that content is eventually flushed without a further
\* token or interrupt requires: whenever the buffer holds non-whitespace
\* content, the token stream is still running or a watchdog is pending.
\* This covers the remainder kept by a split dispatch.
C10_BufferedContentHasFlushPending ==
    HasContent => (turnPc = "stream" \/ silence_task = "pending")

\* C11: a crash of the playback loop loses no job.  Every task that was
\* submitted and not yet consumed by the loop is still queued or held by
\* the loop, the task taken from the head of the queue before the crash
\* included, so that it plays after the restart.
C11_CrashLosesNoJob ==
    \A j \in DOMAIN jobs : InQueue(audio_queue, j) \/ j = task

\* C12: when the stream fails, generate_and_speak queues exactly one job,
\* for the fallback phrase, and returns normally: the call that leaves the
\* stream without a history update ends idle, with no exception raised to
\* the conversation loop.
C12_StreamFailureReturnsNormally ==
    [][(turnPc = "stream" /\ turnPc' # "stream" /\ history' = history)
          => /\ nextId' = nextId + 1
             /\ audio_queue' = Append(audio_queue, nextId)
             /\ jobs'[nextId].text = FALLBACK
             /\ turnPc' = "idle"]_vars

\* the turns whose stream ended, as the entries they append
RECURSIVE CompletedTurns(_)
CompletedTurns(n) ==
    IF n = 0 THEN <<>>
    ELSE CompletedTurns(n - 1) \o <<[role |-> "user", turn |-> n],
                                     [role |-> "assistant", turn |-> n]>>

IsSuffix(s, t) ==
    /\ Len(s) <= Len(t)
    /\ s = SubSeq(t, Len(t) - Len(s) + 1, Len(t))

\* C13: the history holds at most 8 entries, an even number of them,
\* alternating user / assistant from a user entry, and it is the longest
\* such suffix of the entries of the turns completed so far; the turn that
\* is running or has failed has no entry.
C13_HistoryIsBoundedSuffix ==
    LET completed == IF turnPc = "idle" THEN nTurns ELSE nTurns - 1
        all == CompletedTurns(completed)
    IN  /\ Len(history) <= 8
        /\ Len(history) % 2 = 0
        /\ \A i \in 1..Len(history) :
               history[i].role = IF i % 2 = 1 THEN "user" ELSE "assistant"
        /\ IsSuffix(history, all)
        /\ Len(history) = IF Len(all) < 8 THEN Len(all) ELSE 8

\* C13 witness: a turn has failed after more than four have completed; the
\* oldest turn is evicted and the failed turn left no entry.
C13_Witness ==
    /\ turnPc = "raised"
    /\ Len(history) = 8
    /\ history[1].turn > 1
    /\ history[8].turn = nTurns - 1

InSeq(seq, x) == \E i \in 1..Len(seq) : seq[i] = x

\* C14: an artifact under 100 bytes is not played and the microphone is not
\* muted for it.  The loop spawns a player, muted, only for an artifact of
\* at least 100 bytes; and when the task it awaits has returned a smaller
\* one, its next step plays nothing, takes the next job from the queue,
\* and with no job left it sleeps with is_speaking false and no hook
\* invoked.
C14_SmallArtifactSkipped ==
    /\ [](workerPc \in {"spawn", "playing"} => jobs[task].status = "file")
    /\ [][(workerPc = "await" /\ jobs[task].status = "small" /\ task' # task)
            => /\ played' = played
               /\ audio_queue # <<>> => ~InQueue(audio_queue', Head(audio_queue))
               /\ audio_queue = <<>> =>
                      /\ workerPc' = "sleep"
                      /\ ~is_speaking'
                      /\ lastHook' = lastHook
                      /\ hookRepeated' = hookRepeated]_vars

\* C14 witness: with no interrupt so far, the loop has consumed a job whose
\* artifact is still on disk and was not played, and sleeps with
\* is_speaking false, no hook ever invoked.
C14_Witness ==
    /\ nInterrupts = 0
    /\ workerPc = "sleep"
    /\ ~is_speaking
    /\ lastHook = "none"
    /\ \E j \in files : j \notin DOMAIN jobs /\ ~InSeq(played, j)

\* C15: a flush of an empty or whitespace-only buffer, forced or not,
\* changes nothing: no phrase is dispatched, no task is created or queued,
\* and the buffer and the silence timer are as before.
C15_EmptyFlushDispatchesNothing ==
    Strip(buffer) = <<>> => \A force \in BOOLEAN : _try_dispatch(Eng, force) = Eng

\* C15 witness: the forced flush at the end of a stream of whitespace has
\* run: the buffer still holds the whitespace and no task was ever created.
C15_Witness ==
    /\ turnPc = "idle"
    /\ buffer # <<>>
    /\ Strip(buffer) = <<>>
    /\ nextId = 1

\* C16: interrupt() clears the buffer and cancels the silence timer without
\* dispatching: the call leaves an empty buffer and no pending timer, and
\* it creates and queues no task.
C16_InterruptDispatchesNothing ==
    [][nInterrupts' # nInterrupts
          => /\ buffer' = <<>>
             /\ silence_task' # "pending"
             /\ nextId' = nextId
             /\ DOMAIN jobs' \subseteq DOMAIN jobs
             /\ audio_queue' = <<>>]_vars

EndsWithComma(word) == word[Len(word)] = ","

IsConjunction(word) == Lower(word) \in {<<"a","n","d">>, <<"o","r">>, <<"b","u","t">>}

IsPrepositionBeforeCapital(words, k) ==
    /\ k < Len(words)
    /\ Lower(words[k]) \in
          {<<"i","n">>, <<"a","t">>, <<"t","o">>, <<"f","r","o","m">>,
           <<"o","f">>, <<"o","n">>}
    /\ IsUpper(words[k + 1][1])

\* the flush gets to the length rule: there is text, it does not end in
\* punctuation, and the flush is forced or has 8 words not ending in a
\* held conjunction
ReachesLengthRule(words, force) ==
    /\ words # <<>>
    /\ words[Len(words)][Len(words[Len(words)])] \notin {".", "!", "?", ","}
    /\ \/ force
       \/ /\ Len(words) >= 8
          /\ Lower(words[Len(words)]) \notin
                {<<"a","n","d">>, <<"b","u","t">>, <<"o","r">>, <<"s","o">>,
                 <<"b","e","c","a","u","s","e">>}

\* how many words the flush dispatched as a prefix, keeping the others in
\* the buffer; 0 when it dispatched the whole buffer
FlushSplit(before, force) ==
    LET after == _try_dispatch(before, force) IN
    IF after.buffer = <<>> \/ Dispatched(before, after) = <<>> THEN 0
    ELSE Len(Split(Dispatched(before, after)[1]))

Max(S) == CHOOSE x \in S : \A y \in S : y <= x

SplitPrefersKind(chunk, force) ==
    LET before == add_token(Eng, chunk)
        words == Split(before.buffer)
        sp == FlushSplit(before, force)
        commas == {k \in 1..Len(words) - 1 : EndsWithComma(words[k])}
        conjunctions == {k \in 2..Len(words) : IsConjunction(words[k])}
        prepositions == {k \in 2..Len(words) : IsPrepositionBeforeCapital(words, k)}
    IN  ReachesLengthRule(words, force) =>
            IF commas # {} THEN sp \in commas
            ELSE IF conjunctions # {} THEN sp + 1 \in conjunctions
            ELSE IF prepositions # {} THEN sp + 1 \in prepositions
            ELSE sp = 0

SplitAtLastCandidate(chunk, force) ==
    LET before == add_token(Eng, chunk)
        words == Split(before.buffer)
        sp == FlushSplit(before, force)
        candidates == {k \in 2..Len(words) :
                          \/ EndsWithComma(words[k])
                          \/ IsConjunction(words[k])
                          \/ IsPrepositionBeforeCapital(words, k)}
    IN  ReachesLengthRule(words, force) =>
            IF candidates = {} THEN sp = 0
            ELSE LET last == Max(candidates) IN
                 sp = IF EndsWithComma(words[last]) THEN last ELSE last - 1

\* C17 as stated: at the length rule the split is after a comma-terminated
\* word whenever the buffer has one; before a conjunction only when it has
\* no comma-terminated word; before a preposition followed by a
\* capitalised word only when it has neither; and the whole buffer is
\* dispatched when it has none of them.
C17_SplitPrefersCommaThenConjunction ==
    (turnPc = "stream" /\ nTokens = 0 /\ buffer = <<>>)
        => \A chunk \in Chunks, force \in BOOLEAN : SplitPrefersKind(chunk, force)

\* C17 amended: at the length rule the split is at the last word, the first
\* word of the buffer excepted, that is of one of the three kinds: after it
\* when it ends in a comma, before it otherwise; the whole buffer is
\* dispatched when no word but the first is of any kind.
C17_SplitAtLastCandidate ==
    (turnPc = "stream" /\ nTokens = 0 /\ buffer = <<>>)
        => \A chunk \in Chunks, force \in BOOLEAN : SplitAtLastCandidate(chunk, force)

\* C17 witness: the forced flush at the end of the stream has split before
\* a conjunction a buffer that held a comma-terminated word before it.
C17_Witness ==
    /\ turnPc = "idle"
    /\ nextId = 2
    /\ 1 \in DOMAIN jobs
    /\ LET phrase == Split(jobs[1].text)
           kept == Split(buffer)
       IN  /\ kept # <<>>
           /\ IsConjunction(kept[1])
           /\ \E k \in 2..Len(phrase) - 1 : EndsWithComma(phrase[k])

\* C18: no artifact file outlives its job: every file on disk is that of a
\* task still queued or held by the playback loop, which removes it after
\* playing, on a playback failure and when it is too small; interrupt()
\* removes those of the completed tasks it drains.
C18_NoArtifactOutlivesItsJob == \A j \in files : j \in DOMAIN jobs

\* C19: while the playback loop awaits the generation of the job it took
\* from the queue, is_speaking is false and the microphone is open: the
\* hook invoked last is not the mute hook.
C19_AwaitingImpliesMicOpen ==
    workerPc = "await" => (~is_speaking /\ lastHook # "mute" /\ active)

\* C20: a job whose generation fails or yields no audio is skipped without
\* muting, and the jobs after it are not affected.  A phrase shorter than 2
\* characters or a bare punctuation token never yields an artifact; when
\* the task the loop awaits has returned no audio, the loop's next step
\* plays nothing, takes the next job from the queue, and with no job left
\* sleeps with no hook invoked; and the mute hook is invoked only to play
\* an artifact of a job that has one.
C20_FailedJobSkipped ==
    /\ [][\A j \in DOMAIN jobs :
            (/\ jobs[j].status = "pending"
             /\ NoAudioText(jobs[j].text)
             /\ j \in DOMAIN jobs'
             /\ jobs'[j].status # "pending")
                => (jobs'[j].status \in {"none", "cancelled"} /\ j \notin files')]_vars
    /\ [][(workerPc = "await" /\ jobs[task].status \in {"none", "cancelled"}
              /\ task' # task)
            => /\ played' = played
               /\ audio_queue # <<>> => ~InQueue(audio_queue', Head(audio_queue))
               /\ audio_queue = <<>> =>
                      /\ workerPc' = "sleep"
                      /\ lastHook' = lastHook
                      /\ hookRepeated' = hookRepeated]_vars
    /\ [][(lastHook' = "mute" /\ lastHook # "mute")
            => (workerPc' = "spawn" /\ jobs'[task'].status = "file")]_vars

\* C20 witness: with no interrupt and no playback failure so far, the
\* artifact of a job is playing after an earlier job was consumed without
\* being played and without leaving a file: it had yielded no audio.
C20_Witness ==
    /\ nInterrupts = 0
    /\ ~hookRepeated
    /\ workerPc = "playing"
    /\ InSeq(played, task)
    /\ \E j \in 1..task - 1 : ~InSeq(played, j) /\ j \notin files

\* C21: at most one silence watchdog is pending and not cancelled, and it
\* is the one silence_task refers to, armed by the last token; a step that
\* dispatches a phrase or runs interrupt() leaves none.  (The fallback
\* phrase of a failed stream is queued without a dispatch.)
C21_AtMostOneWatchdog ==
    /\ [](watchdogs <= 1 /\ (watchdogs = 1 <=> silence_task = "pending"))
    /\ [][(nextId' # nextId /\ ~(turnPc = "stream" /\ turnPc' = "raised"))
            => watchdogs' = 0]_vars

\* C21 witness: a second token has arrived while the watchdog of the first
\* was pending (it has not fired: the content is still buffered and
\* nothing was dispatched), and one watchdog is pending.
C21_Witness ==
    /\ nTokens >= 2
    /\ HasContent
    /\ nextId = 1
    /\ watchdogs = 1

SplitKeepsWords(chunk, force) ==
    LET before == add_token(Eng, chunk)
        after == _try_dispatch(before, force)
        words == Split(before.buffer)
        phrase == Dispatched(before, after)
    IN  (phrase # <<>> /\ after.buffer # <<>>) =>
            LET prefix == Split(phrase[1])
                kept == Split(after.buffer)
            IN  /\ 0 < Len(prefix)
                /\ Len(prefix) < Len(words)
                /\ kept # <<>>
                /\ prefix \o kept = words
                /\ phrase[1] = Join(prefix)
                /\ after.buffer = Join(kept) \o <<" ">>

\* C22: a flush that dispatches a prefix and keeps a remainder loses and
\* duplicates no word: the prefix and the remainder are both non-empty, and
\* the words of the phrase followed by the words of the new buffer are the
\* words of the buffer before the flush, in order.
C22_SplitKeepsWords ==
    (turnPc = "stream" /\ nTokens = 0 /\ buffer = <<>>)
        => \A chunk \in Chunks, force \in BOOLEAN : SplitKeepsWords(chunk, force)

\* C22 witness: the unforced flush of a chunk of 8 words whose word 6 is
\* "and" has dispatched words 1-5 and kept the other three, from "and" on.
C22_Witness ==
    /\ turnPc = "stream"
    /\ nTokens = 1
    /\ nextId = 2
    /\ 1 \in DOMAIN jobs
    /\ Len(Split(jobs[1].text)) = 5
    /\ Len(Split(buffer)) = 3
    /\ Split(buffer)[1] = <<"a","n","d">>
    /\ buffer[Len(buffer)] = " "

====
